---- MODULE Spec2Model ----
(***************************************************************************)
(* Model of app.py, the MetaTrader 5 performance dashboard.                *)
(*                                                                         *)
(* One run of the Streamlit script is one request.  The run is cut at the  *)
(* calls whose outcome the script does not decide (mt5.initialize, the     *)
(* cached get_trade_history, mt5.shutdown) and at the branches of the      *)
(* dashboard area; pc is the position of the run.  Of a deal only the      *)
(* columns that decide a branch or enter a metric are kept (ticket, time,  *)
(* type, entry, profit); symbol, volume, price and comment are carried     *)
(* through unchanged by the script and are left out.                       *)
(***************************************************************************)
EXTENDS Integers, Sequences, FiniteSets

(***************************************************************************)
(* Bounds of the model.                                                    *)
(***************************************************************************)
MaxDeals == 2          \* longest broker history drawn by InitAnalysis
MaxDay == 2            \* the date pickers offer the days 1..MaxDay
DayLen == 2            \* instants per day: time-of-day runs over 0..DayLen-1
TickSeconds == 300     \* seconds by which one Tick advances the clock
MaxTicks == 2          \* the clock stops at MaxTicks * TickSeconds
MaxRuns == 3           \* button presses explored in one behaviour

(***************************************************************************)
(* Program constants.                                                      *)
(***************************************************************************)
TTL == 600             \* @st.cache_data(ttl=600)

DEAL_TYPE_BUY == "DEAL_TYPE_BUY"
DEAL_TYPE_SELL == "DEAL_TYPE_SELL"
DEAL_TYPE_BALANCE == "DEAL_TYPE_BALANCE"
DEAL_TYPE_CREDIT == "DEAL_TYPE_CREDIT"
DEAL_ENTRY_IN == "DEAL_ENTRY_IN"
DEAL_ENTRY_OUT == "DEAL_ENTRY_OUT"

(***************************************************************************)
(* Dates and date-times.  A date is a day number; a date-time is a day and *)
(* a time of day.  The broker stamps a deal with an integer (seconds since *)
(* the epoch), which pd.to_datetime turns into a date-time.                *)
(***************************************************************************)
Days == 1..MaxDay

MinTime == 0
MaxTime == DayLen - 1

Combine(date, tod) == [day |-> date, tod |-> tod]

DtLess(a, b) == a.day < b.day \/ (a.day = b.day /\ a.tod < b.tod)
DtLeq(a, b) == a = b \/ DtLess(a, b)

ToDatetime(t) == [day |-> t \div DayLen, tod |-> t % DayLen]

(***************************************************************************)
(* Sequence helpers (pandas column operations).                            *)
(***************************************************************************)
RECURSIVE Sum(_)
Sum(s) == IF s = <<>> THEN 0 ELSE s[1] + Sum(Tail(s))

Column(df, col) == [i \in 1..Len(df) |-> df[i][col]]

RECURSIVE CumSum(_)
CumSum(s) ==
    IF s = <<>> THEN <<>>
    ELSE LET n == Len(s)
             prev == CumSum(SubSeq(s, 1, n - 1))
             last == IF prev = <<>> THEN 0 ELSE prev[n - 1]
         IN  Append(prev, last + s[n])

Abs(x) == IF x < 0 THEN -x ELSE x

(***************************************************************************)
(* The broker: its history of deals, and mt5.history_deals_get.            *)
(***************************************************************************)
Profits == {-2, 0, 3}
DealTimes == {DayLen + 1, 2 * DayLen}

TradeKinds ==
    [time : DealTimes, type : {DEAL_TYPE_BUY, DEAL_TYPE_SELL},
     entry : {DEAL_ENTRY_IN, DEAL_ENTRY_OUT}, profit : Profits]
LedgerKinds ==
    [time : DealTimes, type : {DEAL_TYPE_BALANCE}, entry : {DEAL_ENTRY_IN}, profit : {5}]
    \cup [time : DealTimes, type : {DEAL_TYPE_CREDIT}, entry : {DEAL_ENTRY_IN}, profit : {1}]
DealKinds == TradeKinds \cup LedgerKinds

\* A history: the deals in the broker's order, the ticket being the position.
Ticketed(ks) ==
    [i \in 1..Len(ks) |->
        [ticket |-> i, time |-> ks[i].time, type |-> ks[i].type,
         entry |-> ks[i].entry, profit |-> ks[i].profit]]

Ledgers == {Ticketed(ks) : ks \in UNION {[1..n -> DealKinds] : n \in 0..MaxDeals}}

K(time, type, entry, profit) ==
    [time |-> time, type |-> type, entry |-> entry, profit |-> profit]

\* The histories the request life cycle is explored over.
Histories ==
    { Ticketed(<<>>),
      Ticketed(<<K(DayLen + 1, DEAL_TYPE_BALANCE, DEAL_ENTRY_IN, 5)>>),
      Ticketed(<<K(2 * DayLen, DEAL_TYPE_SELL, DEAL_ENTRY_OUT, 3),
                 K(DayLen + 1, DEAL_TYPE_BUY, DEAL_ENTRY_IN, 0),
                 K(DayLen + 1, DEAL_TYPE_BALANCE, DEAL_ENTRY_IN, 5)>>),
      Ticketed(<<K(DayLen + 1, DEAL_TYPE_BUY, DEAL_ENTRY_OUT, -2),
                 K(DayLen + 1, DEAL_TYPE_SELL, DEAL_ENTRY_OUT, 0),
                 K(2 * DayLen, DEAL_TYPE_CREDIT, DEAL_ENTRY_IN, 1)>>) }

\* mt5.history_deals_get(date_from, date_to): the deals stamped in the range.
history_deals_get(ledger, date_from, date_to) ==
    SelectSeq(ledger, LAMBDA d : /\ DtLeq(date_from, ToDatetime(d.time))
                                 /\ DtLeq(ToDatetime(d.time), date_to))

(***************************************************************************)
(* get_trade_history: the body under the cache decorator.                  *)
(***************************************************************************)
\* df['time'] = pd.to_datetime(df['time'], unit='s')
ToDataFrame(deals) ==
    [i \in 1..Len(deals) |->
        [ticket |-> deals[i].ticket, time |-> ToDatetime(deals[i].time),
         type |-> deals[i].type, entry |-> deals[i].entry,
         profit |-> deals[i].profit]]

IsSortedByTime(df) ==
    \A i \in 1..Len(df) : \A j \in 1..Len(df) :
        i < j => DtLeq(df[i].time, df[j].time)

IndexPerms(n) ==
    {p \in [1..n -> 1..n] : \A i \in 1..n : \E j \in 1..n : p[j] = i}

\* df.sort_values('time') with the default kind (quicksort, not stable): the
\* rows in ascending time, rows of equal time in any order.
sort_values(df) ==
    {s \in {[i \in 1..Len(df) |-> df[p[i]]] : p \in IndexPerms(Len(df))} :
        IsSortedByTime(s)}

\* The frames one call of the body can return.
get_trade_history(ledger, start_date, end_date) ==
    LET deals == history_deals_get(ledger, start_date, end_date)
    IN  IF deals = <<>> THEN {<<>>} ELSE sort_values(ToDataFrame(deals))

(***************************************************************************)
(* Entry classifier and performance analyzer (the dashboard area).         *)
(***************************************************************************)
\* A mutant of TradeFilter: balance operations pass the filter too.
TradeFilterWithBalance(raw_data) ==
    SelectSeq(raw_data, LAMBDA d :
        d.type \in {DEAL_TYPE_BUY, DEAL_TYPE_SELL, DEAL_TYPE_BALANCE})

\* raw_data[raw_data['type'].isin([DEAL_TYPE_BUY, DEAL_TYPE_SELL])].copy()
TradeFilter(raw_data) ==
    SelectSeq(raw_data, LAMBDA d : d.type \in {DEAL_TYPE_BUY, DEAL_TYPE_SELL})

\* raw_data[raw_data['type'] == DEAL_TYPE_BALANCE].copy()
BalanceFilter(raw_data) ==
    SelectSeq(raw_data, LAMBDA d : d.type = DEAL_TYPE_BALANCE)

\* A quotient a / b of two integers, kept exact as the pair of its terms.
Ratio(a, b) == [num |-> a, den |-> b]

\* float('inf')
Inf == Ratio(1, 0)

\* A mutant of WinRate: the scaling to a percentage is left out.
WinRateAsFraction(winning_trades, total_trades) ==
    IF total_trades > 0 THEN Ratio(winning_trades, total_trades)
    ELSE Ratio(0, 1)

\* (winning_trades / total_trades * 100) if total_trades > 0 else 0
WinRate(winning_trades, total_trades) ==
    IF total_trades > 0 THEN Ratio(winning_trades * 100, total_trades)
    ELSE Ratio(0, 1)

\* A mutant of ProfitFactor: no winning profit gives 0 instead of infinity.
ProfitFactorZeroWithoutWins(total_profit, total_loss) ==
    IF total_loss > 0 THEN Ratio(total_profit, total_loss)
    ELSE IF total_profit > 0 THEN Inf ELSE Ratio(0, 1)

\* (total_profit / total_loss) if total_loss > 0 else float('inf')
ProfitFactor(total_profit, total_loss) ==
    IF total_loss > 0 THEN Ratio(total_profit, total_loss) ELSE Inf

\* wins['profit'].mean() if winning_trades > 0 else 0, and the same of losses
Mean(profits) ==
    IF Len(profits) > 0 THEN Ratio(Sum(profits), Len(profits)) ELSE Ratio(0, 1)

AbsRatio(r) == Ratio(Abs(r.num), r.den)

\* The performance metrics of a non-empty trade frame.
Metrics(trade_data) ==
    LET closing_deals == SelectSeq(trade_data, LAMBDA d : d.entry = DEAL_ENTRY_OUT)
        wins == SelectSeq(closing_deals, LAMBDA d : d.profit > 0)
        losses == SelectSeq(closing_deals, LAMBDA d : d.profit < 0)
        total_profit == Sum(Column(wins, "profit"))
        total_loss == Abs(Sum(Column(losses, "profit")))
    IN  [net_profit |-> Sum(Column(trade_data, "profit")),
         total_trades |-> Len(closing_deals),
         winning_trades |-> Len(wins),
         losing_trades |-> Len(losses),
         win_rate |-> WinRate(Len(wins), Len(closing_deals)),
         profit_factor |-> ProfitFactor(total_profit, total_loss),
         avg_win |-> Mean(Column(wins, "profit")),
         avg_loss |-> AbsRatio(Mean(Column(losses, "profit")))]

\* A mutant of EquityCurve: the running sum covers the closing deals only.
EquityCurveOfClosing(trade_data) ==
    LET cl == [i \in 1..Len(trade_data) |->
                  IF trade_data[i].entry = DEAL_ENTRY_OUT
                  THEN trade_data[i].profit ELSE 0]
        cum == CumSum(cl)
    IN  [i \in 1..Len(trade_data) |->
            [time |-> trade_data[i].time, cumulative_profit |-> cum[i]]]

\* trade_data['cumulative_profit'] = trade_data['profit'].cumsum(), drawn
\* as the line x = time, y = cumulative_profit.
EquityCurve(trade_data) ==
    LET cum == CumSum(Column(trade_data, "profit"))
    IN  [i \in 1..Len(trade_data) |->
            [time |-> trade_data[i].time, cumulative_profit |-> cum[i]]]

\* trade_data['type'].replace({DEAL_TYPE_BUY: 'Sell', DEAL_TYPE_SELL: 'Buy'})
Relabel(df) ==
    [i \in 1..Len(df) |->
        [df[i] EXCEPT !.type = IF @ = DEAL_TYPE_BUY THEN "Sell"
                               ELSE IF @ = DEAL_TYPE_SELL THEN "Buy" ELSE @]]

\* trade_data[trade_data['profit'] != 0]
DropZeroProfit(df) == SelectSeq(df, LAMBDA d : d.profit # 0)

(***************************************************************************)
(* State.                                                                  *)
(***************************************************************************)
VARIABLES
    ledger,          \* the broker's history of deals (read-only)
    clock,           \* seconds elapsed
    cache,           \* st.cache_data of get_trade_history: {[key, value, stored]}
    pc,              \* position of the script run
    start_date,      \* st.date_input("Start Date")
    end_date,        \* st.date_input("End Date")
    analyze_button,  \* st.button: whether this run was triggered by it
    runs,            \* button presses so far
    connected,       \* whether the MT5 connection is open
    calls,           \* the broker calls of this run, in order
    bound,           \* the names the run has assigned among the five below
    raw_data,        \* the run's locals, <<>> while not assigned
    trade_data,
    balance_data,
    metrics,
    fig_equity,
    screen           \* what the dashboard area shows

vars == <<ledger, clock, cache, pc, start_date, end_date, analyze_button, runs,
          connected, calls, bound, raw_data, trade_data, balance_data,
          metrics, fig_equity, screen>>

locals == <<bound, raw_data, trade_data, balance_data, metrics, fig_equity>>

\* datetime.combine(start_date, datetime.min.time())
start_datetime == Combine(start_date, MinTime)
\* datetime.combine(end_date, datetime.max.time())
end_datetime == Combine(end_date, MaxTime)

\* The cache key of get_trade_history(start_datetime, end_datetime).
Key == <<start_datetime, end_datetime>>

\* A mutant of Fresh: an entry never expires.
FreshForever(c, key, now) == {e \in c : e.key = key}

\* The entries of the cache that answer a call with `key` at time `now`:
\* stored under the same arguments less than TTL seconds ago.
Fresh(c, key, now) == {e \in c : e.key = key /\ now < e.stored + TTL}

\* Storing a result: expired entries and the key's old entry are dropped.
Store(c, key, value, now) ==
    {e \in c : e.key # key /\ now < e.stored + TTL}
        \cup {[key |-> key, value |-> value, stored |-> now]}

NewRun ==
    /\ bound' = {}
    /\ raw_data' = <<>>
    /\ trade_data' = <<>>
    /\ balance_data' = <<>>
    /\ metrics' = <<>>
    /\ fig_equity' = <<>>
    /\ calls' = <<>>

InitRun ==
    /\ clock = 0
    /\ cache = {}
    /\ start_date \in Days
    /\ end_date \in Days
    /\ bound = {}
    /\ raw_data = <<>>
    /\ trade_data = <<>>
    /\ balance_data = <<>>
    /\ metrics = <<>>
    /\ fig_equity = <<>>

\* The first run of the script: no button pressed, the hint is shown.
Init ==
    /\ InitRun
    /\ ledger \in Histories
    /\ pc = "done"
    /\ analyze_button = FALSE
    /\ runs = 0
    /\ connected = FALSE
    /\ calls = <<>>
    /\ screen = {"info"}

(***************************************************************************)
(* Runs of the script.                                                     *)
(***************************************************************************)
\* A date picker is changed: the script reruns with the button not pressed.
SetStartDate ==
    /\ pc = "done"
    /\ \E d \in Days \ {start_date} : start_date' = d
    /\ analyze_button' = FALSE
    /\ NewRun
    /\ screen' = {"info"}
    /\ UNCHANGED <<ledger, runs, clock, cache, pc, end_date, connected>>

SetEndDate ==
    /\ pc = "done"
    /\ \E d \in Days \ {end_date} : end_date' = d
    /\ analyze_button' = FALSE
    /\ NewRun
    /\ screen' = {"info"}
    /\ UNCHANGED <<ledger, runs, clock, cache, pc, start_date, connected>>

\* The button is pressed and start_datetime >= end_datetime.
AnalyzeRejected ==
    /\ pc = "done"
    /\ runs < MaxRuns
    /\ runs' = runs + 1
    /\ ~DtLess(start_datetime, end_datetime)
    /\ analyze_button' = TRUE
    /\ NewRun
    /\ screen' = {"error_dates"}
    /\ UNCHANGED <<ledger, clock, cache, pc, start_date, end_date, connected>>

\* The button is pressed and the dates pass the check.
AnalyzeAccepted ==
    /\ pc = "done"
    /\ runs < MaxRuns
    /\ runs' = runs + 1
    /\ DtLess(start_datetime, end_datetime)
    /\ analyze_button' = TRUE
    /\ NewRun
    /\ screen' = {}
    /\ pc' = "connect"
    /\ UNCHANGED <<ledger, clock, cache, start_date, end_date, connected>>

\* connect_to_mt5: mt5.initialize() succeeds.
ConnectOk ==
    /\ pc = "connect"
    /\ calls' = Append(calls, "initialize")
    /\ connected' = TRUE
    /\ pc' = "fetch"
    /\ UNCHANGED <<ledger, runs, clock, cache, start_date, end_date, analyze_button,
                   locals, screen>>

\* A mutant of ConnectFail: the run goes on after the error is reported.
ConnectFailNoStop ==
    /\ pc = "connect"
    /\ calls' = Append(calls, "initialize")
    /\ screen' = {"error_connect"}
    /\ pc' = "fetch"
    /\ UNCHANGED <<ledger, runs, clock, cache, start_date, end_date, analyze_button,
                   connected, locals>>

\* connect_to_mt5: mt5.initialize() fails; st.error, then st.stop() ends the run.
ConnectFail ==
    /\ pc = "connect"
    /\ calls' = Append(calls, "initialize")
    /\ screen' = {"error_connect"}
    /\ pc' = "done"
    /\ UNCHANGED <<ledger, runs, clock, cache, start_date, end_date, analyze_button,
                   connected, locals>>

\* get_trade_history answered by the cache: the body is not run.
FetchCached ==
    /\ pc = "fetch"
    /\ \E e \in Fresh(cache, Key, clock) : raw_data' = e.value
    /\ bound' = bound \cup {"raw_data"}
    /\ pc' = "shutdown"
    /\ UNCHANGED <<ledger, runs, clock, cache, start_date, end_date, analyze_button,
                   connected, calls, trade_data, balance_data, metrics,
                   fig_equity, screen>>

\* get_trade_history not answered by the cache: the body runs and its result
\* is stored.
FetchFresh ==
    /\ pc = "fetch"
    /\ Fresh(cache, Key, clock) = {}
    /\ calls' = Append(calls, "history_deals_get")
    /\ \E df \in get_trade_history(ledger, start_datetime, end_datetime) :
          /\ raw_data' = df
          /\ cache' = Store(cache, Key, df, clock)
    /\ bound' = bound \cup {"raw_data"}
    /\ pc' = "shutdown"
    /\ UNCHANGED <<ledger, runs, clock, start_date, end_date, analyze_button,
                   connected, trade_data, balance_data, metrics, fig_equity,
                   screen>>

\* The body of get_trade_history raises: nothing is stored, the exception
\* leaves the script, which ends with the traceback shown.
FetchRaises ==
    /\ pc = "fetch"
    /\ Fresh(cache, Key, clock) = {}
    /\ calls' = Append(calls, "history_deals_get")
    /\ screen' = {"exception"}
    /\ pc' = "done"
    /\ UNCHANGED <<ledger, runs, clock, cache, start_date, end_date, analyze_button,
                   connected, locals>>

\* mt5.shutdown()
Shutdown ==
    /\ pc = "shutdown"
    /\ calls' = Append(calls, "shutdown")
    /\ connected' = FALSE
    /\ pc' = "classify"
    /\ UNCHANGED <<ledger, runs, clock, cache, start_date, end_date, analyze_button,
                   locals, screen>>

\* raw_data.empty
NoActivity ==
    /\ pc = "classify"
    /\ raw_data = <<>>
    /\ screen' = {"warning_no_activity"}
    /\ pc' = "done"
    /\ UNCHANGED <<ledger, runs, clock, cache, start_date, end_date, analyze_button,
                   connected, calls, locals>>

\* The two filters, then trade_data.empty.
NoTrades ==
    /\ pc = "classify"
    /\ raw_data # <<>>
    /\ TradeFilter(raw_data) = <<>>
    /\ trade_data' = TradeFilter(raw_data)
    /\ balance_data' = BalanceFilter(raw_data)
    /\ bound' = bound \cup {"trade_data", "balance_data"}
    /\ screen' = {"warning_no_trades"}
    /\ pc' = "done"
    /\ UNCHANGED <<ledger, runs, clock, cache, start_date, end_date, analyze_button,
                   connected, calls, raw_data, metrics, fig_equity>>

\* The two filters, trades found.
Classified ==
    /\ pc = "classify"
    /\ raw_data # <<>>
    /\ TradeFilter(raw_data) # <<>>
    /\ trade_data' = TradeFilter(raw_data)
    /\ balance_data' = BalanceFilter(raw_data)
    /\ bound' = bound \cup {"trade_data", "balance_data"}
    /\ pc' = "metrics"
    /\ UNCHANGED <<ledger, runs, clock, cache, start_date, end_date, analyze_button,
                   connected, calls, raw_data, metrics, fig_equity, screen>>

\* The metrics, the KPI row and the two charts.
ComputeMetrics ==
    /\ pc = "metrics"
    /\ metrics' = Metrics(trade_data)
    /\ fig_equity' = EquityCurve(trade_data)
    /\ bound' = bound \cup {"metrics", "fig_equity"}
    /\ screen' = {"kpis", "equity_chart", "symbol_chart"}
    /\ pc' = "display"
    /\ UNCHANGED <<ledger, runs, clock, cache, start_date, end_date, analyze_button,
                   connected, calls, raw_data, trade_data, balance_data>>

\* The balance table, when the run gets to the detailed history sections.
BalanceTable == IF balance_data # <<>> THEN {"balance_table"} ELSE {}

\* A mutant of Display: the relabelling and the filter are written to the
\* fetched frame and to its cache entry, not to the run's copy.
DisplayInPlace ==
    /\ pc = "display"
    /\ raw_data' = DropZeroProfit(Relabel(raw_data))
    /\ cache' = {[e EXCEPT !.value = DropZeroProfit(Relabel(@))] : e \in cache}
    /\ screen' = screen \cup {"trade_table"} \cup BalanceTable
    /\ pc' = "done"
    /\ UNCHANGED <<ledger, runs, clock, start_date, end_date, analyze_button,
                   connected, calls, bound, trade_data, balance_data,
                   metrics, fig_equity>>

\* The type relabelling, the zero-profit filter and the two tables.
Display ==
    /\ pc = "display"
    /\ trade_data' = DropZeroProfit(Relabel(trade_data))
    /\ screen' = screen \cup {"trade_table"} \cup BalanceTable
    /\ pc' = "done"
    /\ UNCHANGED <<ledger, runs, clock, cache, start_date, end_date, analyze_button,
                   connected, calls, bound, raw_data, balance_data, metrics,
                   fig_equity>>

\* Time passes between two runs of the script (a run is short against a
\* tick, and reads the clock once, at the cache lookup).
Tick ==
    /\ pc = "done"
    /\ clock + TickSeconds <= MaxTicks * TickSeconds
    /\ clock' = clock + TickSeconds
    /\ UNCHANGED <<ledger, runs, cache, pc, start_date, end_date, analyze_button,
                   connected, calls, locals, screen>>

Next ==
    \/ SetStartDate
    \/ SetEndDate
    \/ AnalyzeRejected
    \/ AnalyzeAccepted
    \/ ConnectOk
    \/ ConnectFail
    \/ FetchCached
    \/ FetchFresh
    \/ FetchRaises
    \/ Shutdown
    \/ NoActivity
    \/ NoTrades
    \/ Classified
    \/ ComputeMetrics
    \/ Display
    \/ Tick

Spec == Init /\ [][Next]_vars

(***************************************************************************)
(* One analysis of any history: the run has been triggered over all the    *)
(* days and is connected; it fetches, classifies, analyzes and displays.   *)
(***************************************************************************)
InitAnalysis ==
    /\ InitRun
    /\ start_date = 1
    /\ end_date = MaxDay
    /\ ledger \in Ledgers
    /\ pc = "fetch"
    /\ analyze_button = TRUE
    /\ runs = 1
    /\ connected = TRUE
    /\ calls = <<"initialize">>
    /\ screen = {}

NextAnalysis ==
    \/ FetchFresh
    \/ FetchRaises
    \/ Shutdown
    \/ NoActivity
    \/ NoTrades
    \/ Classified
    \/ ComputeMetrics
    \/ Display

SpecAnalysis == InitAnalysis /\ [][NextAnalysis]_vars

(***************************************************************************)
(* Properties.  The helpers below restate what a frame holds in terms of   *)
(* sets of rows; they do not use the operators of the model above.         *)
(***************************************************************************)
Rows(df) == {df[i] : i \in 1..Len(df)}

NoDuplicates(df) == Cardinality(Rows(df)) = Len(df)

IsTrade(r) == r.type = DEAL_TYPE_BUY \/ r.type = DEAL_TYPE_SELL

TradeRows(df) == SelectSeq(df, IsTrade)

RECURSIVE ProfitOf(_)
ProfitOf(S) ==
    IF S = {} THEN 0
    ELSE LET r == CHOOSE x \in S : TRUE IN r.profit + ProfitOf(S \ {r})

Position(df, r) == CHOOSE k \in 1..Len(df) : df[k] = r

KeepsOrder(sub, df) ==
    \A i \in 1..Len(sub) : \A j \in 1..Len(sub) :
        i < j => Position(df, sub[i]) < Position(df, sub[j])

\* The rows the broker holds for a cache key, as the fetch converts them.
RowsInRange(key) ==
    {[ticket |-> ledger[i].ticket, time |-> ToDatetime(ledger[i].time),
      type |-> ledger[i].type, entry |-> ledger[i].entry,
      profit |-> ledger[i].profit] :
        i \in {k \in 1..Len(ledger) :
                  /\ DtLeq(key[1], ToDatetime(ledger[k].time))
                  /\ DtLeq(ToDatetime(ledger[k].time), key[2])}}

\* `df` is what a fetch under `key` returns: every row of the range with its
\* type code and profit as the broker holds them, once, in ascending time.
Faithful(df, key) ==
    /\ Rows(df) = RowsInRange(key)
    /\ NoDuplicates(df)
    /\ \A i \in 1..Len(df) : \A j \in 1..Len(df) :
          i < j => ~DtLess(df[j].time, df[i].time)

ClosingRows == {r \in Rows(TradeRows(raw_data)) : r.entry = DEAL_ENTRY_OUT}
WinRows == {r \in ClosingRows : r.profit > 0}
LossRows == {r \in ClosingRows : r.profit < 0}

\* C1 (as claimed): a run triggered with a start date not strictly before the
\* end date, equal dates included, ends in the validation error and calls
\* neither the connection nor the fetch.
C1_CoreOnlyIfStartBeforeEnd ==
    (analyze_button /\ ~(start_date < end_date)) =>
        /\ pc = "done"
        /\ screen = {"error_dates"}
        /\ calls = <<>>

\* C2 (as claimed): no run ends with the broker connection still open,
\* whatever the fetch did (entries, nothing, an error).
C2_ConnectionReleasedAtEnd == pc = "done" => ~connected

\* C3 (as claimed): a run that classified its entries shows the balance table
\* whenever there are balance entries; with no trade entry it computes no
\* metrics and shows the "no trades" state.
C3_BalanceTableWheneverBalances ==
    (pc = "done" /\ "balance_data" \in bound) =>
        /\ balance_data # <<>> => "balance_table" \in screen
        /\ TradeRows(raw_data) = <<>> =>
              /\ "metrics" \notin bound
              /\ "kpis" \notin screen
              /\ "warning_no_trades" \in screen

\* C4: when mt5.initialize fails the run is over: only the error is shown,
\* initialize was called once and nothing else was, no frame, metric, chart
\* or table exists.
C4_ConnectionFailureIsTerminal ==
    "error_connect" \in screen =>
        /\ pc = "done"
        /\ screen = {"error_connect"}
        /\ calls = <<"initialize">>
        /\ bound = {}

C4_Witness == "error_connect" \in screen /\ runs > 1

\* C5 (as claimed): profit_factor is infinite iff some closing entry has
\* profit > 0 and none has profit < 0.
C5_InfIffWinsAndNoLosses ==
    "metrics" \in bound =>
        (metrics.profit_factor = Inf <=> (WinRows # {} /\ LossRows = {}))

\* C5 (amended): profit_factor is infinite iff no closing entry has
\* profit < 0, whether or not one has profit > 0; when the sum of the losing
\* profits is not zero it is sum(wins.profit) / abs(sum(losses.profit)).
C5_InfIffNoLosses ==
    "metrics" \in bound =>
        /\ metrics.profit_factor = Inf <=> LossRows = {}
        /\ ProfitOf(LossRows) # 0 =>
              /\ metrics.profit_factor.den > 0
              /\ metrics.profit_factor.num * Abs(ProfitOf(LossRows))
                    = ProfitOf(WinRows) * metrics.profit_factor.den

C5_Witness ==
    /\ "metrics" \in bound
    /\ metrics.profit_factor = Inf
    /\ ClosingRows # {}
    /\ WinRows = {}

\* C6: a fetch is answered without calling the broker iff the cache holds a
\* result stored under the very same (start, end) less than TTL seconds ago,
\* and then returns that result; otherwise the broker is called and what it
\* returns is stored under (start, end) at the current time.  Nothing but a
\* fetch changes the cache.
C6_CacheKeyedAndTimeBoxed ==
    [][IF pc = "fetch" /\ pc' # "fetch"
       THEN LET hit == \E e \in cache : e.key = Key /\ clock - e.stored < TTL
                called == calls' = Append(calls, "history_deals_get")
            IN  /\ called <=> ~hit
                /\ ~called => calls' = calls
                /\ hit => /\ cache' = cache
                          /\ \E e \in cache : e.key = Key /\ e.value = raw_data'
                /\ (called /\ pc' = "shutdown") =>
                      \E e \in cache' : /\ e.key = Key
                                        /\ e.stored = clock
                                        /\ e.value = raw_data'
       ELSE cache' = cache]_vars

C6_Witness ==
    /\ pc = "shutdown"
    /\ calls = <<"initialize">>
    /\ clock > 0
    /\ \E e \in cache : e.key # Key
    /\ \E e \in cache : e.key = Key /\ e.stored < clock

\* C7: the equity curve has one point per trade entry, in ascending time; its
\* values are the running sums of profit, and the last one is net_profit,
\* the sum of profit over all the trade entries the broker returned, the
\* opening ones included.
C7_CumulativeProfit ==
    "fig_equity" \in bound =>
        LET T == TradeRows(raw_data)
            n == Len(T)
        IN  /\ Len(fig_equity) = n
            /\ \A i \in 1..n :
                  /\ fig_equity[i].time = T[i].time
                  /\ fig_equity[i].cumulative_profit = ProfitOf({T[k] : k \in 1..i})
            /\ \A i \in 1..n : \A j \in 1..n :
                  i < j => ~DtLess(fig_equity[j].time, fig_equity[i].time)
            /\ Rows(T) = {r \in RowsInRange(Key) : IsTrade(r)}
            /\ fig_equity[n].cumulative_profit = metrics.net_profit
            /\ metrics.net_profit = ProfitOf({r \in RowsInRange(Key) : IsTrade(r)})

C7_Witness ==
    /\ "fig_equity" \in bound
    /\ Len(fig_equity) = 2
    /\ ledger[1].time > ledger[2].time
    /\ \E r \in Rows(raw_data) : r.entry = DEAL_ENTRY_IN /\ r.profit # 0
    /\ \E r \in Rows(raw_data) : r.entry = DEAL_ENTRY_OUT /\ r.profit # 0

\* C8: no analysis changes what was fetched: every cached result and the
\* run's raw_data hold the broker's rows of their range with the original
\* type codes and the zero-profit rows; metrics and equity curve are those of
\* the trade rows of raw_data, and the relabelled, filtered table is a copy
\* made of them.
C8_FetchedNeverMutated ==
    /\ \A e \in cache : Faithful(e.value, e.key)
    /\ "raw_data" \in bound => Faithful(raw_data, Key)
    /\ "metrics" \in bound => metrics = Metrics(TradeRows(raw_data))
    /\ "fig_equity" \in bound => fig_equity = EquityCurve(TradeRows(raw_data))
    /\ "trade_table" \in screen =>
          /\ {"metrics", "fig_equity"} \subseteq bound
          /\ trade_data = DropZeroProfit(Relabel(TradeRows(raw_data)))

C8_Witness ==
    /\ pc = "done"
    /\ runs > 1
    /\ "trade_table" \in screen
    /\ calls = <<"initialize", "shutdown">>
    /\ \E r \in Rows(raw_data) : IsTrade(r) /\ r.profit = 0
    /\ Len(trade_data) < Len(TradeRows(raw_data))

\* C9: win_rate is within [0, 100]; it is 0 when there is no closing entry,
\* else 100 * (closing entries with profit > 0) / total_trades; a closing
\* entry of profit 0 counts in total_trades, not as a win, not as a loss.
C9_WinRate ==
    "metrics" \in bound =>
        LET total == Cardinality(ClosingRows)
            zero == Cardinality({r \in ClosingRows : r.profit = 0})
            w == metrics.win_rate
        IN  /\ metrics.total_trades = total
            /\ metrics.winning_trades = Cardinality(WinRows)
            /\ metrics.losing_trades = Cardinality(LossRows)
            /\ metrics.winning_trades + metrics.losing_trades + zero = total
            /\ w.den > 0 /\ 0 <= w.num /\ w.num <= 100 * w.den
            /\ total = 0 => w.num = 0
            /\ total > 0 => w.num * total = 100 * Cardinality(WinRows) * w.den

C9_Witness ==
    /\ "metrics" \in bound
    /\ metrics.total_trades = 2
    /\ metrics.winning_trades = 1
    /\ metrics.losing_trades = 0

\* C10: the trade subset is exactly the Buy and Sell rows of the raw frame,
\* the balance subset exactly its Balance rows; they share no row, hold no
\* row of another type, keep the raw order, and filtering the trade subset
\* again gives it back.
C10_ClassifyPartition ==
    (pc \in {"metrics", "display"} \/ (pc = "done" /\ "warning_no_trades" \in screen)) =>
        /\ \A r \in Rows(trade_data) : IsTrade(r)
        /\ \A r \in Rows(balance_data) : r.type = DEAL_TYPE_BALANCE
        /\ Rows(trade_data) \cap Rows(balance_data) = {}
        /\ Rows(trade_data) \cup Rows(balance_data) \subseteq Rows(raw_data)
        /\ \A r \in Rows(raw_data) :
              /\ IsTrade(r) => r \in Rows(trade_data)
              /\ r.type = DEAL_TYPE_BALANCE => r \in Rows(balance_data)
        /\ NoDuplicates(trade_data) /\ NoDuplicates(balance_data)
        /\ KeepsOrder(trade_data, raw_data)
        /\ KeepsOrder(balance_data, raw_data)
        /\ TradeFilter(trade_data) = trade_data

C10_Witness ==
    /\ pc = "metrics"
    /\ balance_data # <<>>
    /\ \E r \in Rows(raw_data) : r.type = DEAL_TYPE_BALANCE
    /\ Len(raw_data) = 2

====
